---- MODULE Spec2Model ----
(***************************************************************************)
(* Model of client_py/client.py: the NotRedisConnPool connection pool      *)
(* (asyncio.Semaphore + queue.Queue), the NotRedisConn operations wrapped  *)
(* by yield_when_done, and the length-prefixed frame codec.                *)
(*                                                                         *)
(* Bytes are naturals 0..255, a bytes object is a sequence of bytes and a  *)
(* str is a sequence of code points.  None is the record NoneVal and a str *)
(* value s is the record Str(s).                                           *)
(***************************************************************************)
EXTENDS Naturals, Sequences, FiniteSets

VARIABLES
    sem,        \* NotRedisConnPool._sem._value
    waiters,    \* NotRedisConnPool._sem._waiters, in FIFO order (callers)
    woken,      \* the waiters whose future has been resolved by release()
    queue,      \* NotRedisConnPool._connections (queue.Queue), head first
    created,    \* number of NotRedisConn objects initialise() has put
    initpc,     \* pool.initialise(): "new", "running", "done" or "failed"
    stalled,    \* the event-loop thread is blocked inside Queue.get()
    pc,         \* per caller: "idle", "waiting", "holding", "awaiting",
                \* "awaiting_stale" (in an operation on a returned connection),
                \* "opening" (in NotRedisConn.initialise on the held connection),
                \* "blocked" (in Queue.get), "blocked_put" (in Queue.put)
    ref,        \* per caller: the connection get_conn last returned (0: none)
    op,         \* per caller: the call in flight ("none" when there is none)
    eof,        \* per connection: the read stream has reached end of file
    misused,    \* the number of calls made on a connection its caller did not hold
    iter,       \* pool.initialise(): iterations of its loop done by the running call
    reinit,     \* the number of further calls of pool.initialise()
    sockets,    \* the connections whose self.socket / whose stream / whose
                \* replaced stream (old) is open
    leaked,     \* the connections on which an operation has raised and
                \* that no yield_conn has been called on since
    wire,       \* per connection: the requests written whose reply is unread
    reader,     \* per connection's StreamReader and transport: the replies
                \* received and unread, the caller whose read is registered
                \* as waiting for data (0: none), whether the transport is
                \* closing with its connection_lost callback still to run,
                \* and the exception of a connection the server has reset
                \* ("none", "pending": connection_lost will set it, "set")
    fut,        \* per caller: the future its read waits on: "none",
                \* "pending", or resolved with "result" / "exception"
    last,       \* what the latest step wrote or returned to a caller (NoCall: nothing)
    cpc,        \* codec harness: "off", "start", "sent", "cut", "read", "decoded"
    payload,    \* codec harness: the payload under test
    stream,     \* codec harness: the bytes on the stream and whether it closed
    got         \* codec harness: what recv / the decode step produced

poolvars == <<sem, waiters, woken, queue, created, initpc, stalled>>
lifevars == <<iter, reinit, sockets, leaked, wire, reader, fut>>
callervars == <<pc, ref, op, eof, misused>>
codecvars == <<cpc, payload, stream, got>>
vars == <<sem, waiters, woken, queue, created, initpc, stalled,
          pc, ref, op, eof, misused, iter, reinit, sockets, leaked, wire, reader, fut,
          last, cpc, payload, stream, got>>

(***************************************************************************)
(* Bounds of the model.                                                    *)
(***************************************************************************)
Size == 2          \* the pool's size argument (N)
NumCallers == 3    \* concurrent callers (M > N)
MaxWire == 2       \* requests written on one connection with their reply unread
MaxFaults == 1     \* departures of one behaviour from the plain use of the pool
                   \* that are present at a time (see Faults)
MaxLen == 3        \* longest payload of the codec harness

Callers == 1..NumCallers
Conns == 1..(Size * (1 + MaxFaults))

\* callers are interchangeable: the one that breaks the callers' discipline
Misuser == 1

(***************************************************************************)
(* Values.                                                                 *)
(***************************************************************************)
NoneVal == [none |-> TRUE]
Str(s) == [str |-> s]
Bytes(b) == [bytes |-> b]

\* 'GET', 'SET', ... as code points / ASCII bytes
SP == 32
TxtNil == <<40, 110, 105, 108, 41>>          \* "(nil)"
TxtGET == <<71, 69, 84>>
TxtSET == <<83, 69, 84>>
TxtDEL == <<68, 69, 76>>
TxtECHO == <<69, 67, 72, 79>>
TxtPING == <<80, 73, 78, 71>>
TxtPONG == <<80, 79, 78, 71>>
TxtCLR == <<67, 76, 82>>
TxtA == <<97>>                                \* "a"
Txt1 == <<49>>                                \* "1"
TxtHi == <<104, 105>>                         \* "hi"
TxtLone == <<55296>>                          \* "\ud800", a lone surrogate

Keys == {TxtA, TxtLone}
Values == {Txt1}
Messages == {TxtHi}

(***************************************************************************)
(* str.encode() and bytes.decode(): UTF-8.                                 *)
(***************************************************************************)
\* str.encode() raises UnicodeEncodeError for a surrogate code point
encodable(s) == \A i \in 1..Len(s) : s[i] < 55296 \/ s[i] > 57343

\* str.encode() of an encodable str of code points below 0x10000
RECURSIVE encode(_)
encode(s) ==
    IF s = <<>> THEN <<>>
    ELSE LET c == Head(s) IN
         (IF c < 128 THEN <<c>>
          ELSE IF c < 2048 THEN <<192 + (c \div 64), 128 + (c % 64)>>
          ELSE <<224 + (c \div 4096), 128 + ((c \div 64) % 64), 128 + (c % 64)>>)
            \o encode(Tail(s))

\* bytes.decode(): [ok |-> TRUE, val |-> str], or [ok |-> FALSE] for a
\* UnicodeDecodeError.  One- and two-byte sequences; the model's alphabets
\* hold no lead byte of a longer sequence.
decode(b) ==
    LET n == Len(b)
        ascii(i) == b[i] < 128
        lead(i) == b[i] >= 194 /\ b[i] <= 223
        cont(i) == b[i] >= 128 /\ b[i] <= 191
        wellformed ==
            \A i \in 1..n :
                \/ ascii(i)
                \/ lead(i) /\ i < n /\ cont(i + 1)
                \/ cont(i) /\ i > 1 /\ lead(i - 1)
        starts == {i \in 1..n : ~cont(i)}
        nth(k) == CHOOSE i \in starts : Cardinality({j \in starts : j <= i}) = k
        point(i) == IF ascii(i) THEN b[i] ELSE (b[i] - 192) * 64 + (b[i + 1] - 128)
    IN IF wellformed
       THEN [ok |-> TRUE, val |-> [k \in 1..Cardinality(starts) |-> point(nth(k))]]
       ELSE [ok |-> FALSE]

(***************************************************************************)
(* The frame codec.                                                        *)
(***************************************************************************)
\* variant of to_bytes: the prefix written least significant byte first
to_bytes_little(n) ==
    <<n % 256, (n \div 256) % 256, (n \div 65536) % 256, (n \div 16777216) % 256>>

\* int.to_bytes(4, byteorder='big'); OverflowError from 2^32 on
to_bytes(n) ==
    <<(n \div 16777216) % 256, (n \div 65536) % 256, (n \div 256) % 256, n % 256>>

\* int.from_bytes(size): big-endian by default, any number of bytes
RECURSIVE from_bytes(_)
from_bytes(b) ==
    IF b = <<>> THEN 0
    ELSE from_bytes(SubSeq(b, 1, Len(b) - 1)) * 256 + b[Len(b)]

\* NotRedisConn._send: the bytes handed to self.write.write
_send(data) == to_bytes(Len(data)) \o data

\* variant of readexactly: at end of file it returns the bytes it has, as
\* StreamReader.read(n) and socket.recv(n) do
readexactly_short(s, n) ==
    IF Len(s.buf) >= n
    THEN [status |-> "ok", data |-> SubSeq(s.buf, 1, n),
          rest |-> [buf |-> SubSeq(s.buf, n + 1, Len(s.buf)), closed |-> s.closed]]
    ELSE IF s.closed
    THEN [status |-> "ok", data |-> s.buf, rest |-> [buf |-> <<>>, closed |-> TRUE]]
    ELSE [status |-> "blocked", data |-> <<>>, rest |-> s]

\* A stream is [buf |-> bytes not yet read, closed |-> the peer closed it].
\* StreamReader.readexactly(n): n bytes, IncompleteReadError at end of file,
\* and otherwise it keeps waiting ("blocked").
readexactly(s, n) ==
    IF Len(s.buf) >= n
    THEN [status |-> "ok", data |-> SubSeq(s.buf, 1, n),
          rest |-> [buf |-> SubSeq(s.buf, n + 1, Len(s.buf)), closed |-> s.closed]]
    ELSE IF s.closed
    THEN [status |-> "IncompleteReadError", data |-> <<>>,
          rest |-> [buf |-> <<>>, closed |-> TRUE]]
    ELSE [status |-> "blocked", data |-> <<>>, rest |-> s]

\* NotRedisConn.recv
recv(s) ==
    LET size == readexactly(s, 4) IN
    IF size.status # "ok" THEN size
    ELSE readexactly(size.rest, from_bytes(size.data))

\* NotRedisConn.recv_str
recv_str(s) ==
    LET r == recv(s) IN
    IF r.status # "ok" THEN r
    ELSE LET d == decode(r.data) IN
         IF d.ok THEN [status |-> "ok", data |-> d.val, rest |-> r.rest]
         ELSE [status |-> "UnicodeDecodeError", data |-> <<>>, rest |-> r.rest]

\* prev_val[4:] if prev_val != '(nil)' else None
strip_arg(prev_val) ==
    IF prev_val # TxtNil
    THEN Str(SubSeq(prev_val, 5, Len(prev_val)))
    ELSE NoneVal

\* NotRedisConn._recv_with_arg: [status, ret, rest]
_recv_with_arg(s) ==
    LET r == recv_str(s) IN
    IF r.status # "ok" THEN [status |-> r.status, ret |-> NoneVal, rest |-> r.rest]
    ELSE [status |-> "ok", ret |-> strip_arg(r.data), rest |-> r.rest]

\* ping / clear: retval = await self.recv_str(); assert retval == literal
recv_literal(s, literal) ==
    LET r == recv_str(s) IN
    IF r.status # "ok" THEN [status |-> r.status, ret |-> NoneVal, rest |-> r.rest]
    ELSE IF r.data # literal
    THEN [status |-> "AssertionError", ret |-> NoneVal, rest |-> r.rest]
    ELSE [status |-> "ok", ret |-> Str(r.data), rest |-> r.rest]


(***************************************************************************)
(* The six operations.                                                     *)
(***************************************************************************)
Ops == {"get", "set", "delete", "ping", "echo", "clear"}

\* recv and recv_str called directly: they write nothing and are not
\* wrapped by yield_when_done
Reads == {"recv", "recv_str"}

\* the calls that read a reply
Calls == Ops \cup Reads

\* the msg each operation builds (f'GET {key}', f'SET {key} {value}', ...)
Commands(o) ==
    CASE o = "get"    -> {TxtGET \o <<SP>> \o k : k \in Keys}
      [] o = "delete" -> {TxtDEL \o <<SP>> \o k : k \in Keys}
      [] o = "set"    -> {TxtSET \o <<SP>> \o k \o <<SP>> \o v : k \in Keys, v \in Values}
      [] o = "ping"   -> {TxtPING}
      [] o = "echo"   -> {TxtECHO \o <<SP>> \o m : m \in Messages}
      [] o = "clear"  -> {TxtCLR}
      [] o \in Reads  -> {}

\* what a read that ended as r gives its caller: the value v, or nothing
\* when it raised
returned(r, v) ==
    [status |-> r.status, ret |-> IF r.status = "ok" THEN v ELSE NoneVal, rest |-> r.rest]

\* the body of the undecorated coroutine after its _send, reading stream s
op_body(o, s) ==
    CASE o = "ping"  -> recv_literal(s, TxtPONG)
      [] o = "clear" -> recv_literal(s, TxtCLR)
      [] o = "recv"  -> returned(recv(s), Bytes(recv(s).data))
      [] o = "recv_str" -> returned(recv_str(s), Str(recv_str(s).data))
      [] OTHER       -> _recv_with_arg(s)

\* variant of yield_when_done: the body has yielded the connection as well
yield_when_done_twice(r) ==
    IF r.status = "ok"
    THEN [status |-> "ok", ret |-> NoneVal, yields |-> 2]
    ELSE [status |-> r.status, ret |-> NoneVal, yields |-> 0]

\* variant of yield_when_done: the wrapper forgets yield_to_pool
yield_when_done_never(r) ==
    [status |-> r.status, ret |-> NoneVal, yields |-> 0]

\* variant of yield_when_done: yield_to_pool runs in a finally clause
yield_when_done_finally(r) ==
    [status |-> r.status, ret |-> NoneVal, yields |-> 1]

\* yield_when_done's wrapper around a body that ended as r: the value it
\* returns to the caller and the number of yield_to_pool calls it makes
yield_when_done(r) ==
    IF r.status = "ok"
    THEN [status |-> "ok", ret |-> NoneVal, yields |-> 1]
    ELSE [status |-> r.status, ret |-> NoneVal, yields |-> 0]

\* what the call o, its body ended as r, gives its caller: the operations
\* are wrapped by yield_when_done, recv is not
call_result(o, r) ==
    IF o \in Ops THEN yield_when_done(r)
    ELSE [status |-> r.status, ret |-> r.ret, yields |-> 0]

(***************************************************************************)
(* The pool: asyncio.Semaphore and queue.Queue as a record                 *)
(* [sem, waiters, woken, queue].                                           *)
(***************************************************************************)
Pool == [sem |-> sem, waiters |-> waiters, woken |-> woken, queue |-> queue]

\* variant of pool_init: one permit more than connections
pool_init_extra(size) == [sem |-> size + 1, waiters |-> <<>>, woken |-> {}, queue |-> <<>>]

\* NotRedisConnPool.__init__: Semaphore(size) and an empty Queue
pool_init(size) == [sem |-> size, waiters |-> <<>>, woken |-> {}, queue |-> <<>>]

\* variant of locked: only waiters lock, the permit count is not looked at
locked_waiters_only(P) == P.waiters # <<>>

\* Semaphore.locked
locked(P) == P.sem = 0 \/ P.waiters # <<>>

\* variant of _wake_up_next: no waiter's future is resolved
_wake_up_none(P) == P

\* Semaphore._wake_up_next: resolve the first waiter's future that is not done
_wake_up_next(P) ==
    LET pending == {i \in 1..Len(P.waiters) : P.waiters[i] \notin P.woken} IN
    IF pending = {} THEN P
    ELSE LET i == CHOOSE j \in pending : \A k \in pending : j <= k IN
         [P EXCEPT !.sem = @ - 1, !.woken = @ \cup {P.waiters[i]}]

\* variant of release: the permit count goes up by two
release_twice(P) == _wake_up_next([P EXCEPT !.sem = @ + 2])

\* Semaphore.release
release(P) == _wake_up_next([P EXCEPT !.sem = @ + 1])

\* Queue(): maxsize 0, a queue without bound
QueueMaxsize == 0

\* variant of put_blocks: the queue was made as Queue(maxsize=1)
put_blocks_maxsize1(P) == Len(P.queue) >= 1

\* Queue.put waits, and blocks the thread, while the queue is full
put_blocks(P) == QueueMaxsize > 0 /\ Len(P.queue) >= QueueMaxsize

\* NotRedisConnPool.yield_conn
yield_conn(P, conn) == release([P EXCEPT !.queue = Append(@, conn)])

\* n calls of yield_conn(conn)
RECURSIVE yield_times(_, _, _)
yield_times(P, conn, n) ==
    IF n = 0 THEN P ELSE yield_times(yield_conn(P, conn), conn, n - 1)

\* the waiter p leaves Semaphore.acquire after its future was resolved
acquire_resume(P, p) ==
    LET Q == [P EXCEPT !.waiters = SelectSeq(@, LAMBDA w : w # p),
                       !.woken = @ \ {p}] IN
    IF Q.sem > 0 THEN _wake_up_next(Q) ELSE Q

(***************************************************************************)
(* The server's side of a connection: for each request it delivers one     *)
(* complete reply frame, or part of one and then closes the stream.        *)
(***************************************************************************)
Replies ==
    { TxtNil, TxtGET \o <<SP>> \o Txt1, TxtSET \o <<SP>> \o Txt1,
      TxtDEL \o <<SP>> \o Txt1, TxtECHO \o <<SP>> \o TxtHi, TxtPONG, TxtCLR }

Cut(b, k) == [buf |-> SubSeq(b, 1, k), closed |-> TRUE]

\* what the server may put on the stream in answer to operation o
ServerStreams(o) ==
    LET whole(r) == [buf |-> _send(r), closed |-> FALSE]
        value(verb, v) == whole(verb \o <<SP>> \o v)
        cuts(r) == {Cut(_send(r), 2), Cut(_send(r), 4 + Len(r) - 1)}
    IN CASE o = "get"    -> {whole(TxtNil), value(TxtGET, Txt1)} \cup cuts(TxtGET \o <<SP>> \o Txt1)
         [] o = "set"    -> {whole(TxtNil), value(TxtSET, Txt1)} \cup cuts(TxtSET \o <<SP>> \o Txt1)
         [] o = "delete" -> {whole(TxtNil), value(TxtDEL, Txt1)} \cup cuts(TxtNil)
         [] o = "echo"   -> {whole(TxtNil), value(TxtECHO, TxtHi)} \cup cuts(TxtECHO \o <<SP>> \o TxtHi)
         [] o = "ping"   -> {whole(TxtPONG), whole(TxtCLR), whole(TxtNil), Cut(_send(TxtPONG), 6)}
         [] o = "clear"  -> {whole(TxtCLR), whole(TxtPONG), whole(TxtNil), Cut(_send(TxtCLR), 3)}

AllStreams == UNION {ServerStreams(o) : o \in Ops}

AtEof == [buf |-> <<>>, closed |-> TRUE]

\* the calls tabulated: the frames a call may write, whether msg.encode()
\* may raise, the streams the server may answer an operation with, and how
\* the body ends on each stream
Frames ==
    [o \in Calls |->
        IF o \in Ops
        THEN {_send(encode(msg)) : msg \in {m \in Commands(o) : encodable(m)}}
        ELSE {<<>>}]
Unencodable == [o \in Calls |-> \E msg \in Commands(o) : ~encodable(msg)]
Streams == [o \in Ops |-> ServerStreams(o)]
Bodies == [o \in Calls |-> [s \in AllStreams \cup {AtEof} |-> op_body(o, s)]]

\* the records of `last': nothing, a request written and the call suspended,
\* a call that raised without reading, a call ended (frame is the frame
\* written in the step that ended it, empty when the call had suspended)
NoCall == [op |-> "none", sent |-> <<>>, reply |-> AtEof, status |-> "none", ret |-> NoneVal]
Sent(o, frame) == [op |-> o, sent |-> frame, reply |-> AtEof, status |-> "sent", ret |-> NoneVal]
Raising(o, frame, exc) == [op |-> o, sent |-> frame, reply |-> AtEof, status |-> exc, ret |-> NoneVal]
Done(o, frame, s, r) == [op |-> o, sent |-> frame, reply |-> s, status |-> r.status, ret |-> r.ret]

(***************************************************************************)
(* State predicates on callers.                                            *)
(***************************************************************************)
\* get_conn returned a connection to p and p has not returned it
Holding(p) == pc[p] \in {"holding", "awaiting", "opening"}
Holders == {p \in Callers : Holding(p)}

\* occurrences of connection c in a queue q
Occ(q, c) == Cardinality({i \in 1..Len(q) : q[i] = c})

(***************************************************************************)
(* Initial state: the pool as __init__ leaves it, every caller idle.       *)
(***************************************************************************)
CodecIdle ==
    /\ cpc = "off"
    /\ payload = <<>>
    /\ stream = AtEof
    /\ got = [status |-> "none"]

\* the StreamReader and transport asyncio.open_connection returns
NewReader == [buffered |-> 0, waiter |-> 0, closing |-> FALSE, exception |-> "none"]

PoolInit ==
    /\ sem = pool_init(Size).sem
    /\ waiters = pool_init(Size).waiters
    /\ woken = pool_init(Size).woken
    /\ queue = pool_init(Size).queue
    /\ created = 0
    /\ initpc = "new"
    /\ stalled = FALSE
    /\ pc = [p \in Callers |-> "idle"]
    /\ ref = [p \in Callers |-> 0]
    /\ op = [p \in Callers |-> "none"]
    /\ eof = [c \in Conns |-> FALSE]
    /\ misused = 0
    /\ iter = 0
    /\ reinit = 0
    /\ sockets = [socket |-> {}, stream |-> {}, old |-> {}]
    /\ leaked = {}
    /\ wire = [c \in Conns |-> <<>>]
    /\ reader = [c \in Conns |-> NewReader]
    /\ fut = [p \in Callers |-> "none"]
    /\ last = NoCall

Init == PoolInit /\ CodecIdle

SetPool(P) ==
    /\ sem' = P.sem
    /\ waiters' = P.waiters
    /\ woken' = P.woken
    /\ queue' = P.queue

(***************************************************************************)
(* NotRedisConnPool.initialise.  NotRedisConn.__init__ is synchronous and  *)
(* opens self.socket; the coroutine then suspends in                       *)
(* asyncio.open_connection.  One step runs from one suspension to the      *)
(* next: the stream of the connection under construction is opened, the    *)
(* connection is put, and the next connection's __init__ runs.             *)
(***************************************************************************)
MaxOf(S) == CHOOSE x \in S : \A y \in S : y <= x

\* the number of the next NotRedisConn object made
next_conn == 1 + MaxOf({created} \cup sockets.socket)

\* the connection under construction while initialise is suspended
building == MaxOf(sockets.socket)

\* NotRedisConn.__init__: socket.create_connection opens self.socket
construct(S, c) == [S EXCEPT !.socket = @ \cup {c}]

\* NotRedisConn.initialise: asyncio.open_connection opens the stream
open_stream(S, c) == [S EXCEPT !.stream = @ \cup {c}]

\* a connection that was never put is collected: its self.socket is closed
discard(S, c) == [S EXCEPT !.socket = @ \ {c}]

\* the read of caller p was woken and finds no whole reply: a part of one
\* has arrived, or another coroutine has read it
Spurious(p) ==
    /\ pc[p] \in {"awaiting", "awaiting_stale"}
    /\ fut[p] = "result"
    /\ reader[ref[p]].buffered = 0
    /\ ~eof[ref[p]]

\* connection c's stream is closed, closing or reset, or was replaced
Faulty(c) ==
    eof[c] \/ reader[c].closing \/ reader[c].exception # "none" \/ c \in sockets.old

\* the departures of the behaviour so far from the plain use of the pool:
\* calls on a connection not held, further calls of initialise(), faulty
\* connections, and callers inside NotRedisConn.initialise or recv or
\* woken for a part of a reply
Faults ==
    misused + reinit
        + Cardinality({d \in Conns : Faulty(d)})
        + Cardinality({p \in Callers : pc[p] = "opening" \/ op[p] \in Reads \/ Spurious(p)})

\* a further departure is within the bound
Calm == Faults < MaxFaults

\* the stream of connection c may be closed with the reply s
may_close(c, s) == s.closed => (eof[c] \/ reader[c].closing \/ Faults < MaxFaults)

\* initialise() is called: the first NotRedisConn is constructed and the
\* coroutine suspends in its open_connection
initialise_call ==
    /\ ~stalled
    /\ initpc = "new"
    /\ sockets' = construct(sockets, next_conn)
    /\ initpc' = "running"
    /\ iter' = 0
    /\ last' = NoCall
    /\ UNCHANGED <<sem, waiters, woken, queue, created, stalled, reinit, leaked,
                   wire, reader, fut, callervars, codecvars>>

\* open_connection of the connection under construction returned: it is
\* put; the loop ends, or the next NotRedisConn is constructed (the coroutine
\* suspends again), or its socket.create_connection is refused
initialise_step ==
    /\ ~stalled
    /\ initpc = "running"
    /\ iter < Size
    /\ created' = created + 1
    /\ iter' = iter + 1
    /\ queue' = Append(queue, building)
    /\ IF iter + 1 = Size
       THEN /\ initpc' = "done"
            /\ sockets' = open_stream(sockets, building)
       ELSE \/ /\ initpc' = "running"
               /\ sockets' = construct(open_stream(sockets, building), building + 1)
            \/ /\ initpc' = "failed"
               /\ sockets' = open_stream(sockets, building)
    /\ last' = NoCall
    /\ UNCHANGED <<sem, waiters, woken, stalled, reinit, leaked, wire, reader, fut,
                   callervars, codecvars>>

\* initialise() is called again on a pool it has already run on: the loop
\* starts over and makes self._size connections more
initialise_again ==
    /\ ~stalled
    /\ initpc \in {"done", "failed"}
    /\ Faults < MaxFaults
    /\ sockets' = construct(sockets, next_conn)
    /\ initpc' = "running"
    /\ iter' = 0
    /\ reinit' = reinit + 1
    /\ last' = NoCall
    /\ UNCHANGED <<sem, waiters, woken, queue, created, stalled, leaked, wire,
                   reader, fut, callervars, codecvars>>

\* initialise() raises and the connections already put stay in the queue:
\* socket.create_connection of the first connection is refused within the
\* call, or asyncio.open_connection of the connection under construction
\* fails; that connection's self.socket is closed at once when nothing
\* refers to the object any more, and otherwise stays open until the
\* object is collected
initialise_fail ==
    /\ ~stalled
    /\ \/ /\ initpc = "new"
          /\ sockets' = sockets
       \/ /\ initpc = "running"
          /\ sockets' \in {sockets, discard(sockets, building)}
    /\ initpc' = "failed"
    /\ last' = NoCall
    /\ UNCHANGED <<sem, waiters, woken, queue, created, stalled, iter, reinit,
                   leaked, wire, reader, fut, callervars, codecvars>>

\* the connections the pool owns: those in the idle queue and those held
Owned == {queue[i] : i \in 1..Len(queue)} \cup {ref[p] : p \in Holders}

\* the connections made and never put, left behind by a failed initialise()
HalfBuilt ==
    {c \in sockets.socket \ (sockets.stream \cup Owned) :
        initpc = "running" => c # building}

\* an object nothing refers to is collected and its socket closed: the
\* self.socket of a connection that was never put, or the stream that
\* NotRedisConn.initialise has replaced
collect(c) ==
    /\ ~stalled
    /\ \/ /\ c \in HalfBuilt
          /\ sockets' = discard(sockets, c)
       \/ /\ c \in sockets.old
          /\ sockets' = [sockets EXCEPT !.old = @ \ {c}]
    /\ last' = NoCall
    /\ UNCHANGED <<poolvars, callervars, iter, reinit, leaked, wire, reader, fut,
                   codecvars>>

(***************************************************************************)
(* NotRedisConnPool.get_conn.                                              *)
(***************************************************************************)
\* variant of queue_get: the connection is read but left in the queue
queue_get_peek(P, p) ==
    IF P.queue = <<>>
    THEN /\ SetPool(P)
         /\ stalled' = TRUE
         /\ pc' = [pc EXCEPT ![p] = "blocked"]
         /\ ref' = [ref EXCEPT ![p] = 0]
    ELSE /\ SetPool(P)
         /\ stalled' = stalled
         /\ pc' = [pc EXCEPT ![p] = "holding"]
         /\ ref' = [ref EXCEPT ![p] = Head(P.queue)]

\* return self._connections.get(): Queue.get() blocks the thread, and with
\* it the event loop, while the queue is empty
queue_get(P, p) ==
    IF P.queue = <<>>
    THEN /\ SetPool(P)
         /\ stalled' = TRUE
         /\ pc' = [pc EXCEPT ![p] = "blocked"]
         /\ ref' = [ref EXCEPT ![p] = 0]
    ELSE /\ SetPool([P EXCEPT !.queue = Tail(@)])
         /\ stalled' = stalled
         /\ pc' = [pc EXCEPT ![p] = "holding"]
         /\ ref' = [ref EXCEPT ![p] = Head(P.queue)]

\* caller p calls get_conn: with a free permit and no waiter it runs to the
\* end without suspending, otherwise it suspends inside Semaphore.acquire
get_conn(p) ==
    /\ ~stalled
    /\ pc[p] = "idle"
    /\ IF ~locked(Pool)
       THEN queue_get([Pool EXCEPT !.sem = @ - 1], p)
       ELSE /\ SetPool([Pool EXCEPT !.waiters = Append(@, p)])
            /\ pc' = [pc EXCEPT ![p] = "waiting"]
            /\ ref' = [ref EXCEPT ![p] = 0]
            /\ stalled' = stalled
    /\ last' = NoCall
    /\ UNCHANGED <<created, initpc, op, eof, misused, lifevars, codecvars>>

\* the waiter p, its future resolved by release, resumes and finishes get_conn
get_conn_resume(p) ==
    /\ ~stalled
    /\ pc[p] = "waiting"
    /\ p \in woken
    /\ queue_get(acquire_resume(Pool, p), p)
    /\ last' = NoCall
    /\ UNCHANGED <<created, initpc, op, eof, misused, lifevars, codecvars>>

(***************************************************************************)
(* Callers using a connection.                                             *)
(***************************************************************************)
\* caller p runs n calls of pool.yield_conn(conn) and goes on at nextpc; a
\* put that has to wait blocks the thread inside yield_conn
yield_n(p, conn, n, nextpc) ==
    IF n > 0 /\ put_blocks(Pool)
    THEN /\ SetPool(Pool)
         /\ stalled' = TRUE
         /\ pc' = [pc EXCEPT ![p] = "blocked_put"]
    ELSE /\ SetPool(yield_times(Pool, conn, n))
         /\ stalled' = stalled
         /\ pc' = [pc EXCEPT ![p] = nextpc]

\* caller p, holding ref[p], calls pool.yield_conn(ref[p]) itself
call_yield_conn(p) ==
    /\ ~stalled
    /\ pc[p] = "holding"
    /\ yield_n(p, ref[p], 1, "idle")
    /\ leaked' = leaked \ {ref[p]}
    /\ last' = NoCall
    /\ UNCHANGED <<created, initpc, ref, op, eof, misused, iter, reinit, sockets, wire,
                   reader, fut, codecvars>>

\* caller p calls pool.yield_conn on the connection it has already returned
stale_yield_conn(p) ==
    /\ ~stalled
    /\ pc[p] = "idle"
    /\ ref[p] # 0
    /\ Faults < MaxFaults
    /\ yield_n(p, ref[p], 1, "idle")
    /\ leaked' = leaked \ {ref[p]}
    /\ misused' = misused + 1
    /\ last' = NoCall
    /\ UNCHANGED <<created, initpc, ref, op, eof, iter, reinit, sockets, wire, reader, fut,
                   codecvars>>

\* StreamReader._wait_for_data, entered by caller p, finds a read
\* registered as waiting
reader_waiting(p, c) == reader[c].waiter \notin {0, p}

\* StreamReader._wakeup_waiter / set_exception: the future of the read
\* registered on connection c is resolved
wakeup_waiter(c, how) ==
    IF reader[c].waiter = 0 THEN fut ELSE [fut EXCEPT ![reader[c].waiter] = how]

\* the request of operation o, written on a connection whose unread replies
\* are w: its reply is the next one read iff none is unread before it
request(o, w) == [op |-> o, fresh |-> (w = <<>>)]

\* variant of consume: the reply is read and left in the StreamReader
consume_peek(w, s) == w

\* readexactly takes the reply frame s out of the StreamReader: the oldest
\* request is answered; on a closed stream no request is answered any more
consume(w, s) == IF s.closed THEN <<>> ELSE Tail(w)

\* the read of caller p's call o is given the stream s: the body decodes
\* it and the wrapper yields the connection and returns, or the exception
\* leaves the call and the caller goes on at `back'
finish_op(p, o, frame, s, back) ==
    LET body == Bodies[o][s]
        r == call_result(o, body)
    IN /\ body.status # "blocked"
       /\ yield_n(p, ref[p], r.yields,
                  IF o \in Ops /\ r.status = "ok" THEN "idle" ELSE back)
       /\ last' = Done(o, frame, s, r)
       /\ leaked' = IF r.status # "ok"
                    THEN (IF back = "holding" THEN leaked \cup {ref[p]} ELSE leaked)
                    ELSE IF r.yields > 0 THEN leaked \ {ref[p]} ELSE leaked
       /\ eof' = [eof EXCEPT ![ref[p]] = @ \/ s.closed]
       /\ op' = [op EXCEPT ![p] = "none"]

\* the exception exc leaves caller p's call o before a reply was read:
\* UnicodeEncodeError from msg.encode(), RuntimeError from
\* StreamReader._wait_for_data, which finds another read waiting, or the
\* ConnectionResetError of a connection the server has reset
raise_op(p, o, frame, exc, back) ==
    /\ last' = Raising(o, frame, exc)
    /\ leaked' = IF back = "holding" THEN leaked \cup {ref[p]} ELSE leaked
    /\ pc' = [pc EXCEPT ![p] = back]
    /\ op' = [op EXCEPT ![p] = "none"]
    /\ UNCHANGED <<sem, waiters, woken, queue, stalled, eof>>

\* the transport of connection c passes a write on to its socket: after
\* close() it drops the data
writable(c) == c \in sockets.stream /\ ~reader[c].closing

\* the StreamReader after the reply s was read from it
after_read(R, s) == [R EXCEPT !.buffered = IF s.closed THEN 0 ELSE @ - 1]

\* caller p calls o on connection ref[p]: msg.encode() may raise; _send
\* writes the frame; readexactly then raises the exception of a connection
\* that was reset, or returns a reply that is already in the StreamReader,
\* or raises IncompleteReadError at end of file (the requests written
\* before are never answered, the one written now stays unread), or raises
\* RuntimeError when another read is registered, or suspends
start_op(p, o, back) ==
    LET c == ref[p]
        writes == o \in Ops /\ writable(c)
        w == IF writes THEN Append(wire[c], request(o, wire[c])) ELSE wire[c]
        dead == consume(wire[c], AtEof)
    IN /\ Len(wire[c]) < MaxWire
       /\ \/ /\ Unencodable[o]
             /\ Calm
             /\ raise_op(p, o, <<>>, "UnicodeEncodeError", back)
             /\ UNCHANGED <<wire, reader, fut>>
          \/ \E frame \in Frames[o] :
                IF reader[c].exception = "set"
                THEN /\ raise_op(p, o, frame, "ConnectionResetError", back)
                     /\ wire' = [wire EXCEPT ![c] = dead]
                     /\ UNCHANGED <<reader, fut>>
                ELSE IF reader[c].buffered > 0
                THEN \E s \in Streams[Head(wire[c]).op] :
                        /\ may_close(c, s)
                        /\ finish_op(p, o, frame, s, back)
                        /\ wire' = [wire EXCEPT ![c] = consume(w, s)]
                        /\ reader' = [reader EXCEPT ![c] = after_read(@, s)]
                        /\ fut' = fut
                ELSE IF eof[c]
                THEN /\ finish_op(p, o, frame, AtEof, back)
                     /\ wire' = [wire EXCEPT ![c] = IF writes
                                                       THEN Append(dead, request(o, dead))
                                                       ELSE dead]
                     /\ UNCHANGED <<reader, fut>>
                ELSE IF reader_waiting(p, c)
                THEN /\ raise_op(p, o, frame, "RuntimeError", back)
                     /\ wire' = [wire EXCEPT ![c] = w]
                     /\ UNCHANGED <<reader, fut>>
                ELSE /\ last' = Sent(o, frame)
                     /\ pc' = [pc EXCEPT ![p] = IF back = "holding" THEN "awaiting"
                                                   ELSE "awaiting_stale"]
                     /\ op' = [op EXCEPT ![p] = o]
                     /\ wire' = [wire EXCEPT ![c] = w]
                     /\ reader' = [reader EXCEPT ![c].waiter = p]
                     /\ fut' = [fut EXCEPT ![p] = "pending"]
                     /\ UNCHANGED <<sem, waiters, woken, queue, stalled, eof, leaked>>

\* caller p calls operation o on the connection it holds (a caller that is
\* suspended in get_conn or in an operation calls nothing; the call by a
\* caller that has returned the connection is stale_op_send)
op_send(p, o) ==
    /\ ~stalled
    /\ pc[p] = "holding"
    /\ start_op(p, o, "holding")
    /\ UNCHANGED <<created, initpc, ref, misused, iter, reinit, sockets, codecvars>>

\* caller p calls operation o on the connection it has already returned
stale_op_send(p, o) ==
    /\ ~stalled
    /\ pc[p] = "idle"
    /\ ref[p] # 0
    /\ Faults < MaxFaults
    /\ start_op(p, o, "idle")
    /\ misused' = misused + 1
    /\ UNCHANGED <<created, initpc, ref, iter, reinit, sockets, codecvars>>

\* the event loop's read callback: what has arrived on connection c, the
\* server's next reply as a whole or only a part of it, is fed to the
\* StreamReader, which resolves the future of the registered read
reply_arrives(c, whole) ==
    /\ ~stalled
    /\ ~eof[c]
    /\ ~reader[c].closing
    /\ reader[c].exception = "none"
    /\ reader[c].buffered < Len(wire[c])
    /\ whole \/ reader[c].waiter # 0
    /\ reader' = [reader EXCEPT ![c].buffered = IF whole THEN @ + 1 ELSE @,
                                ![c].waiter = 0]
    /\ fut' = wakeup_waiter(c, "result")
    /\ last' = NoCall
    /\ UNCHANGED <<poolvars, callervars, iter, reinit, sockets, leaked, wire, codecvars>>

\* what the read of caller p finds in the StreamReader when it resumes: the
\* oldest unread reply, in one of the forms the server may give it, or nothing
Arrived(p) ==
    IF pc[p] \notin {"awaiting", "awaiting_stale"} THEN {}
    ELSE IF fut[p] = "result" /\ reader[ref[p]].buffered > 0
    THEN Streams[Head(wire[ref[p]]).op]
    ELSE {AtEof}

\* caller p, the future of its read resolved, resumes inside
\* StreamReader._wait_for_data, whose finally clause clears the reader's
\* registration, also that of another coroutine: the exception of a reset
\* leaves the call, also when the reply had arrived before the reset (the
\* readexactly of the prefix returns and that of the payload raises); or
\* the read takes the oldest unread reply s and the call ends; or the
\* stream is at end of file; or there is nothing to read (a part of a reply
\* arrived, or another coroutine read the reply) and the read registers
\* itself and waits again
op_recv(p, s) ==
    /\ ~stalled
    /\ pc[p] \in {"awaiting", "awaiting_stale"}
    /\ fut[p] \in {"result", "exception"}
    /\ LET c == ref[p]
           back == IF pc[p] = "awaiting" THEN "holding" ELSE "idle"
           R == [reader[c] EXCEPT !.waiter = 0]
       IN IF fut[p] = "exception" \/ (R.buffered > 0 /\ R.exception = "set")
          THEN /\ raise_op(p, op[p], <<>>, "ConnectionResetError", back)
               /\ reader' = [reader EXCEPT ![c] = after_read(R, AtEof)]
               /\ fut' = [fut EXCEPT ![p] = "none"]
               /\ wire' = [wire EXCEPT ![c] = consume(@, AtEof)]
          ELSE IF R.buffered > 0
          THEN /\ s \in Streams[Head(wire[c]).op]
               /\ may_close(c, s)
               /\ finish_op(p, op[p], <<>>, s, back)
               /\ wire' = [wire EXCEPT ![c] = consume(@, s)]
               /\ reader' = [reader EXCEPT ![c] = after_read(R, s)]
               /\ fut' = [fut EXCEPT ![p] = "none"]
          ELSE IF eof[c]
          THEN /\ s = AtEof
               /\ finish_op(p, op[p], <<>>, s, back)
               /\ wire' = [wire EXCEPT ![c] = consume(@, s)]
               /\ reader' = [reader EXCEPT ![c] = R]
               /\ fut' = [fut EXCEPT ![p] = "none"]
          ELSE /\ s = AtEof
               /\ reader' = [reader EXCEPT ![c] = [R EXCEPT !.waiter = p]]
               /\ fut' = [fut EXCEPT ![p] = "pending"]
               /\ last' = NoCall
               /\ UNCHANGED <<sem, waiters, woken, queue, stalled, pc, op, eof,
                              leaked, wire>>
    /\ UNCHANGED <<created, initpc, ref, misused, iter, reinit, sockets, codecvars>>

\* the server resets connection c (it closes with the request unread): the
\* read callback gets ConnectionResetError from the socket and force-closes
\* the transport, which schedules connection_lost with the exception
connection_reset(c) ==
    /\ ~stalled
    /\ c \in sockets.stream
    /\ ~eof[c]
    /\ ~reader[c].closing
    /\ reader[c].exception = "none"
    /\ Calm
    /\ reader' = [reader EXCEPT ![c].closing = TRUE, ![c].exception = "pending"]
    /\ last' = NoCall
    /\ UNCHANGED <<poolvars, callervars, iter, reinit, sockets, leaked, wire, fut,
                   codecvars>>

\* self.write.close(): the stream closes, self.socket is left alone
close_conn(S, c) == [S EXCEPT !.stream = @ \ {c}]

\* the event loop runs the connection_lost callback of a closing transport:
\* the StreamReader is fed end of file, or is given the exception of the
\* reset, either of which resolves the future of the registered read, and
\* the stream's socket is closed
connection_lost(c) ==
    /\ ~stalled
    /\ reader[c].closing
    /\ sockets' = close_conn(sockets, c)
    /\ IF reader[c].exception = "pending"
       THEN /\ eof' = eof
            /\ reader' = [reader EXCEPT ![c].waiter = 0, ![c].closing = FALSE,
                                        ![c].exception = "set"]
            /\ fut' = wakeup_waiter(c, "exception")
       ELSE /\ eof' = [eof EXCEPT ![c] = TRUE]
            /\ reader' = [reader EXCEPT ![c].waiter = 0, ![c].closing = FALSE]
            /\ fut' = wakeup_waiter(c, "result")
    /\ last' = NoCall
    /\ UNCHANGED <<poolvars, pc, ref, op, misused, iter, reinit, leaked, wire, codecvars>>

(***************************************************************************)
(* The pool and its callers, with the six operations.  The departures     *)
(* from the plain use (a caller calling yield_conn or an operation on a    *)
(* connection it has returned, the server resetting a connection, a reply  *)
(* arriving in parts) are explored for behaviours whose operations in      *)
(* flight are ping, and with a departure present callers go on with ping.  *)
(***************************************************************************)
StaleOps == {"ping"}

\* the operations written on some connection and unanswered, or in progress
InFlight ==
    ({op[q] : q \in Callers} \ {"none"})
        \cup UNION {{wire[c][i].op : i \in 1..Len(wire[c])} : c \in Conns}

Next ==
    \/ initialise_call
    \/ initialise_step
    \/ initialise_fail
    \/ \E p \in Callers : get_conn(p)
    \/ \E p \in Callers : get_conn_resume(p)
    \/ \E p \in Callers : call_yield_conn(p)
    \/ \E p \in Callers, o \in (IF Faults = 0 THEN Ops ELSE StaleOps) : op_send(p, o)
    \/ InFlight \subseteq StaleOps /\ stale_yield_conn(Misuser)
    \/ InFlight \subseteq StaleOps /\ \E o \in StaleOps : stale_op_send(Misuser, o)
    \/ \E c \in Conns, whole \in BOOLEAN :
          (whole \/ (Calm /\ InFlight \subseteq StaleOps)) /\ reply_arrives(c, whole)
    \/ \E p \in Callers : \E s \in Arrived(p) : op_recv(p, s)
    \/ InFlight \subseteq StaleOps /\ \E c \in Conns : connection_reset(c)
    \/ \E c \in Conns : connection_lost(c)
    \/ \E c \in Conns : collect(c)

Spec == Init /\ [][Next]_vars

(***************************************************************************)
(* The callers' discipline broken with two kinds of operation in use:      *)
(* the caller that breaks it uses ping and get, and recv / recv_str on a   *)
(* connection it has returned; the other callers use ping.  The server may close a    *)
(* stream after a reply; resets and close() are in Spec and SpecPool.      *)
(***************************************************************************)
MisuseOps == {"ping", "get"}

NextMisuse ==
    \/ initialise_call
    \/ initialise_step
    \/ initialise_fail
    \/ \E p \in Callers : get_conn(p)
    \/ \E p \in Callers : get_conn_resume(p)
    \/ \E p \in Callers : call_yield_conn(p)
    \/ stale_yield_conn(Misuser)
    \/ \E p \in Callers : \E o \in (IF p = Misuser THEN MisuseOps ELSE StaleOps) : op_send(p, o)
    \/ \E o \in MisuseOps \cup Reads : stale_op_send(Misuser, o)
    \/ \E c \in Conns, whole \in BOOLEAN : (whole \/ Calm) /\ reply_arrives(c, whole)
    \/ \E p \in Callers : \E s \in Arrived(p) : op_recv(p, s)
    \/ \E c \in Conns : collect(c)

SpecMisuse == Init /\ [][NextMisuse]_vars

(***************************************************************************)
(* The life of the pool and of its connections: initialise() may be called *)
(* again, and a caller may close() the connection it holds, open a new     *)
(* stream for it with NotRedisConn.initialise(), or call recv() or         *)
(* recv_str() on it.                                                       *)
(* Operations are ping only.                                               *)
(***************************************************************************)
\* caller p calls close() on the connection it holds: write.close() marks
\* the transport as closing, stops its reading of the socket and schedules
\* connection_lost; self.socket is not touched
close(p) ==
    /\ ~stalled
    /\ pc[p] = "holding"
    /\ writable(ref[p])
    /\ may_close(ref[p], AtEof)
    /\ reader' = [reader EXCEPT ![ref[p]].closing = TRUE]
    /\ last' = NoCall
    /\ UNCHANGED <<poolvars, callervars, iter, reinit, sockets, leaked, wire, fut,
                   codecvars>>

\* caller p calls NotRedisConn.initialise() on the connection it holds and
\* suspends in asyncio.open_connection (one replaced stream per connection
\* is kept track of)
conn_initialise(p) ==
    /\ ~stalled
    /\ pc[p] = "holding"
    /\ ref[p] \notin sockets.old
    /\ Calm \/ Faulty(ref[p])
    /\ pc' = [pc EXCEPT ![p] = "opening"]
    /\ last' = NoCall
    /\ UNCHANGED <<poolvars, ref, op, eof, misused, lifevars, codecvars>>

\* open_connection returned: self.read and self.write are replaced by the
\* new stream, on which nothing was written and nothing has arrived; the
\* stream replaced, if it was open, stays open until it is collected
conn_initialise_done(p) ==
    LET c == ref[p] IN
    /\ ~stalled
    /\ pc[p] = "opening"
    /\ sockets' = [open_stream(sockets, c) EXCEPT
                        !.old = IF c \in sockets.stream THEN @ \cup {c} ELSE @]
    /\ reader' = [reader EXCEPT ![c] = NewReader]
    /\ eof' = [eof EXCEPT ![c] = FALSE]
    /\ wire' = [wire EXCEPT ![c] = <<>>]
    /\ pc' = [pc EXCEPT ![p] = "holding"]
    /\ last' = NoCall
    /\ UNCHANGED <<poolvars, ref, op, misused, iter, reinit, leaked, fut, codecvars>>

\* open_connection is refused: NotRedisConn.initialise raises and the
\* connection keeps the stream it had
conn_initialise_fail(p) ==
    /\ ~stalled
    /\ pc[p] = "opening"
    /\ pc' = [pc EXCEPT ![p] = "holding"]
    /\ last' = NoCall
    /\ UNCHANGED <<poolvars, ref, op, eof, misused, lifevars, codecvars>>

PoolOps == {"ping"}

NextPool ==
    \/ initialise_call
    \/ initialise_step
    \/ initialise_again
    \/ initialise_fail
    \/ \E p \in Callers : get_conn(p)
    \/ \E p \in Callers : get_conn_resume(p)
    \/ \E p \in Callers : call_yield_conn(p)
    \/ \E p \in Callers, o \in PoolOps : op_send(p, o)
    \/ \E p \in Callers, o \in Reads :
          pc[p] = "holding" /\ (Calm \/ Faulty(ref[p])) /\ op_send(p, o)
    \/ \E c \in Conns, whole \in BOOLEAN : (whole \/ Calm) /\ reply_arrives(c, whole)
    \/ \E p \in Callers : \E s \in Arrived(p) : op_recv(p, s)
    \/ \E p \in Callers : close(p)
    \/ \E c \in Conns : connection_reset(c)
    \/ \E c \in Conns : connection_lost(c)
    \/ \E c \in Conns : collect(c)
    \/ \E p \in Callers : conn_initialise(p)
    \/ \E p \in Callers : conn_initialise_done(p)
    \/ \E p \in Callers : conn_initialise_fail(p)

SpecPool == Init /\ [][NextPool]_vars

(***************************************************************************)
(* Progress: the event loop runs every coroutine whose future has been     *)
(* resolved, so a woken waiter does resume.  Callers are under no          *)
(* obligation.  Operations are ping only.                                  *)
(***************************************************************************)
NextLive ==
    \/ initialise_call
    \/ initialise_step
    \/ initialise_fail
    \/ \E p \in Callers : get_conn(p)
    \/ \E p \in Callers : get_conn_resume(p)
    \/ \E p \in Callers : call_yield_conn(p)
    \/ \E p \in Callers, o \in PoolOps : op_send(p, o)
    \/ \E c \in Conns, whole \in BOOLEAN : (whole \/ Calm) /\ reply_arrives(c, whole)
    \/ \E p \in Callers : \E s \in Arrived(p) : op_recv(p, s)
    \/ \E c \in Conns : collect(c)

SpecLive ==
    /\ Init
    /\ [][NextLive]_vars
    /\ \A p \in Callers : WF_vars(get_conn_resume(p))

(***************************************************************************)
(* The codec on its own: a payload is framed by _send, the frame is put on *)
(* a stream, the peer may close the stream after any number of bytes, and  *)
(* recv / _recv_with_arg read it.                                          *)
(***************************************************************************)
ByteAlphabet == {49, 195, 169}

RECURSIVE SeqsUpTo(_, _)
SeqsUpTo(A, n) ==
    IF n = 0 THEN {<<>>}
    ELSE LET shorter == SeqsUpTo(A, n - 1) IN
         shorter \cup {Append(q, a) : q \in shorter, a \in A}

LongPayload == [i \in 1..300 |-> 65]

Payloads == SeqsUpTo(ByteAlphabet, MaxLen) \cup Replies \cup {LongPayload}

CodecInit ==
    /\ PoolInit
    /\ cpc = "start"
    /\ payload \in Payloads
    /\ stream = [buf |-> <<>>, closed |-> FALSE]
    /\ got = [status |-> "none"]

\* _send(payload) on the writing side; its bytes arrive on the stream
codec_send ==
    /\ cpc = "start"
    /\ stream' = [buf |-> _send(payload), closed |-> FALSE]
    /\ cpc' = "sent"
    /\ UNCHANGED <<payload, got, poolvars, callervars, lifevars, last>>

\* the peer closes the stream when only k bytes of the frame were delivered
codec_close(k) ==
    /\ cpc = "sent"
    /\ k \in 0..Len(stream.buf)
    /\ stream' = Cut(stream.buf, k)
    /\ cpc' = "cut"
    /\ UNCHANGED <<payload, got, poolvars, callervars, lifevars, last>>

\* await self.recv() returns or raises
codec_recv ==
    /\ cpc \in {"sent", "cut"}
    /\ recv(stream).status # "blocked"
    /\ got' = recv(stream)
    /\ cpc' = "read"
    /\ UNCHANGED <<payload, stream, poolvars, callervars, lifevars, last>>

\* await self._recv_with_arg() returns or raises
codec_recv_with_arg ==
    /\ cpc \in {"sent", "cut"}
    /\ _recv_with_arg(stream).status # "blocked"
    /\ got' = _recv_with_arg(stream)
    /\ cpc' = "decoded"
    /\ UNCHANGED <<payload, stream, poolvars, callervars, lifevars, last>>

CodecNext ==
    \/ codec_send
    \/ \E k \in 0..Len(stream.buf) : codec_close(k)
    \/ codec_recv
    \/ codec_recv_with_arg

SpecCodec == CodecInit /\ [][CodecNext]_vars

(***************************************************************************)
(* Properties.                                                             *)
(***************************************************************************)
\* the payload text of a complete reply stream
ReplyText(s) == decode(recv(s).data).val

PermitsOut == sem + Cardinality(woken)

\* C1 as stated: after any sequence of get_conn, yield_conn and operation
\* calls, at most Size callers hold a connection that get_conn returned to
\* them and that they have not returned.
C1_AtMostSizeHolders == Cardinality(Holders) <= Size

\* C1 amended: as long as no caller has called yield_conn on a connection it
\* does not hold, at most Size callers hold a connection.
C1_AtMostSizeHoldersNoMisuse == misused = 0 => Cardinality(Holders) <= Size

C1_Witness ==
    /\ misused = 0
    /\ Cardinality(Holders) = Size
    /\ \E p \in Callers : pc[p] = "waiting"

\* C2 as stated: after any sequence of calls no connection is held by two
\* callers at once.
C2_Exclusive ==
    \A p, q \in Callers : (p # q /\ Holding(p) /\ Holding(q)) => ref[p] # ref[q]

\* C2 amended: as long as no caller has called yield_conn on a connection it
\* does not hold, no connection is held by two callers at once.
C2_ExclusiveNoMisuse ==
    misused = 0 =>
        \A p, q \in Callers : (p # q /\ Holding(p) /\ Holding(q)) => ref[p] # ref[q]

\* two callers hold connections, one of which an earlier caller has returned
C2_Witness ==
    /\ misused = 0
    /\ \E p, q, r \in Callers :
        /\ p # q /\ Holding(p) /\ Holding(q)
        /\ r # p /\ pc[r] = "idle" /\ ref[r] = ref[p]

\* the connections some caller holds
CheckedOut == {ref[p] : p \in Holders}

\* the pool is initialised and all Size connections are checked out
AllCheckedOut == initpc = "done" /\ Cardinality(CheckedOut) = Size

\* from a state with all connections checked out, no step hands a caller
\* that holds none a connection, stalls its get_conn or ends it otherwise,
\* and the state lasts until a holder's yield_conn puts its connection back
BlocksUntilYield ==
    AllCheckedOut =>
        /\ queue = <<>> /\ sem = 0 /\ woken = {}
        /\ ~stalled'
        /\ \A p \in Callers : ~Holding(p) => pc'[p] \in {"idle", "waiting"}
        /\ \/ AllCheckedOut'
           \/ \E p \in Holders : ~Holding(p)' /\ queue' = <<ref[p]>>

\* C3 as stated: on an initialised pool with all Size connections checked
\* out, a further get_conn neither returns a connection nor raises until a
\* holder returns a connection via yield_conn.
C3_ExhaustionBlocks == [][BlocksUntilYield]_vars

\* C3 amended: as long as no caller has called yield_conn or an operation on
\* a connection it does not hold, on an initialised pool with all Size
\* connections checked out a further get_conn neither returns a connection
\* nor raises until a holder returns a connection via yield_conn.
C3_ExhaustionBlocksNoMisuse == [][misused' = 0 => BlocksUntilYield]_vars

\* all connections are checked out and a caller waits in get_conn
C3_Witness ==
    /\ misused = 0
    /\ AllCheckedOut
    /\ \E p \in Callers : pc[p] = "waiting"

\* the command verb of an operation
VerbOf(o) ==
    CASE o = "get" -> TxtGET
      [] o = "set" -> TxtSET
      [] o = "delete" -> TxtDEL
      [] o = "echo" -> TxtECHO
      [] o = "ping" -> TxtPING
      [] o = "clear" -> TxtCLR

\* C4: get, set, delete and echo return the decoded value to their caller:
\* None for the reply (nil), and for a reply <VERB> <value> the value.
C4_ReturnsDecodedValue ==
    (last.status = "ok" /\ last.op \in {"get", "set", "delete", "echo"}) =>
        LET text == ReplyText(last.reply)
            verb == VerbOf(last.op) \o <<SP>>
        IN /\ text = TxtNil => last.ret = NoneVal
           /\ (Len(text) >= Len(verb) /\ SubSeq(text, 1, Len(verb)) = verb) =>
                  last.ret = Str(SubSeq(text, Len(verb) + 1, Len(text)))

\* C5: the step in which an operation completes successfully puts the
\* connection it was called on into the idle queue exactly once and releases
\* exactly one permit.
C5_YieldsExactlyOnce ==
    [][ /\ (last'.status = "ok" /\ last'.op \in Ops) =>
              /\ Len(queue') = Len(queue) + 1
              /\ sem' + Cardinality(woken') = PermitsOut + 1
        /\ \A p \in Callers :
              (pc[p] # pc'[p] /\ last'.status = "ok" /\ last'.op \in Ops) =>
                  /\ Occ(queue', ref[p]) = Occ(queue, ref[p]) + 1
                  /\ queue' = Append(queue, ref[p]) ]_vars

\* an operation has just completed successfully and its caller is idle again
C5_Witness ==
    /\ last.status = "ok"
    /\ last.op \in Ops
    /\ queue # <<>>
    /\ \E p \in Callers : pc[p] = "idle" /\ ref[p] # 0

\* C6: ping returns "PONG" and clear returns "CLR" when that is the reply,
\* and for any other reply payload the call raises instead of returning.
C6_PingClearLiteral ==
    (last.op \in {"ping", "clear"} /\ last.status \notin {"none", "sent"}
        /\ ~last.reply.closed) =>
        LET literal == IF last.op = "ping" THEN TxtPONG ELSE TxtCLR IN
        IF ReplyText(last.reply) = literal
        THEN last.status = "ok" /\ last.ret = Str(literal)
        ELSE last.status = "AssertionError"

\* C7: the decode step returns None exactly for the payload (nil), and a
\* payload <VERB> <value> decodes to <value> for GET, DEL, SET and ECHO.
C7_DecodeStripsVerb ==
    (cpc = "decoded" /\ ~stream.closed /\ got.status = "ok") =>
        LET text == ReplyText(stream) IN
        /\ (got.ret = NoneVal) <=> (text = TxtNil)
        /\ \A verb \in {TxtGET, TxtDEL, TxtSET, TxtECHO} :
              (Len(text) > Len(verb) /\ SubSeq(text, 1, Len(verb) + 1) = verb \o <<SP>>) =>
                  got.ret = Str(SubSeq(text, Len(verb) + 2, Len(text)))

\* C8: the frame _send writes is a 4-byte big-endian prefix equal to the
\* payload's length followed by the payload, and recv on that frame returns
\* exactly the payload.
C8_RoundTrip ==
    /\ (cpc = "sent") =>
          /\ Len(stream.buf) = 4 + Len(payload)
          /\ stream.buf[1] * 16777216 + stream.buf[2] * 65536
                + stream.buf[3] * 256 + stream.buf[4] = Len(payload)
          /\ SubSeq(stream.buf, 5, Len(stream.buf)) = payload
    /\ (cpc = "read" /\ ~stream.closed) =>
          /\ got.status = "ok"
          /\ got.data = payload

\* a payload long enough for the second prefix byte has gone round
C8_Witness ==
    /\ cpc = "read"
    /\ ~stream.closed
    /\ Len(payload) >= 256
    /\ got.data = payload

\* C9: when the stream closes before the whole frame was delivered, recv
\* fails and hands no bytes to its caller.
C9_NoPartialFrame ==
    (cpc = "read" /\ stream.closed /\ Len(stream.buf) < 4 + Len(payload)) =>
        /\ got.status = "IncompleteReadError"
        /\ got.data = <<>>

\* the stream closed in the middle of the payload and recv has run
C9_Witness ==
    /\ cpc = "read"
    /\ stream.closed
    /\ Len(stream.buf) > 4
    /\ Len(stream.buf) < 4 + Len(payload)
    /\ got.status = "IncompleteReadError"

\* C10: when a connection attempt of initialise fails, the pool holds no
\* connection afterwards, neither idle nor checked out.
C10_AllOrNothing ==
    initpc = "failed" => (queue = <<>> /\ Holders = {})

\* C11: capacity is fixed: after any sequence of initialise, get_conn,
\* yield_conn and operation calls the pool owns at most Size connections.
C11_CapacityFixed == Cardinality(Owned) <= Size

\* C12: yield_conn never blocks: a caller holding a connection can always
\* run yield_conn, with or without waiters in get_conn, and no caller is
\* ever blocked inside it.
C12_YieldNeverBlocks ==
    \A p \in Callers :
        /\ pc[p] # "blocked_put"
        /\ (pc[p] = "holding" /\ ~stalled) => ENABLED call_yield_conn(p)

\* a yield_conn has completed while another caller was waiting in get_conn
C12_Witness ==
    /\ woken # {}
    /\ \E p \in Callers : pc[p] = "idle" /\ ref[p] # 0

\* the ways an operation call ends by raising
Raised ==
    {"AssertionError", "IncompleteReadError", "UnicodeDecodeError", "RuntimeError",
     "ConnectionResetError", "UnicodeEncodeError"}

\* the step in which an operation raises puts nothing back into the pool,
\* releases no permit and takes no connection from its holder; the
\* connection it was called on is then in no queue entry and held, and it
\* stays so until yield_conn is called on it
ErrorPathLeaks ==
    /\ last'.status \in Raised =>
          /\ Pool' = Pool
          /\ ref' = ref
          /\ Holders' = Holders
    /\ \A p \in Callers :
          (pc[p] = "awaiting" /\ pc'[p] = "holding") => ref[p] \in leaked'
    /\ \A c \in leaked :
          /\ Occ(queue, c) = 0
          /\ \E p \in Holders : ref[p] = c
          /\ c \in leaked' \/ queue' = Append(queue, c)

\* C13 amended: as long as no caller has called yield_conn or an operation
\* on a connection it does not hold, an operation that raises puts nothing
\* back into the pool and releases no permit, and its connection stays
\* checked out until yield_conn is called on it.
C13_ErrorPathLeaks == [][misused' = 0 => ErrorPathLeaks]_vars

\* an operation has just raised and its caller still holds the connection
C13_Witness ==
    /\ misused = 0
    /\ last.status \in {"AssertionError", "IncompleteReadError"}
    /\ \E p \in Callers : pc[p] = "holding" /\ ref[p] \in leaked

\* C13 as stated: a connection on which an operation raised stays checked
\* out for the rest of the run.
C13_StaysCheckedOut ==
    [][ \A c \in leaked : c \in leaked' /\ Occ(queue', c) = 0 ]_vars

\* the callers holding connection c
HoldersOf(c) == {p \in Holders : ref[p] = c}

\* C14: every connection the pool has made is either exactly once in the
\* idle queue, or absent from the queue and held by one caller; never twice
\* in the queue and never both queued and held.
C14_IdleOrCheckedOut ==
    \A c \in 1..created : Occ(queue, c) + Cardinality(HoldersOf(c)) = 1

\* C14 for callers that only yield connections they hold.
C14_IdleOrCheckedOutNoMisuse ==
    misused = 0 => \A c \in 1..created : Occ(queue, c) + Cardinality(HoldersOf(c)) = 1

\* a connection has gone Idle -> CheckedOut -> Idle and another is checked out
C14_Witness ==
    /\ misused = 0
    /\ \E p, q \in Callers :
          /\ pc[p] = "idle" /\ ref[p] # 0 /\ Occ(queue, ref[p]) = 1
          /\ Holding(q) /\ ref[q] # ref[p]

\* requests and replies alternate on every connection: never more than one
\* request is outstanding; an operation that waits for its reply has
\* written its frame on a connection with no unread reply; and a reply is
\* read only by the caller that waits for it, as the reply to its request
Alternate ==
    /\ \A c \in Conns : Len(wire[c]) <= 1
    /\ \A p \in Callers :
          /\ (pc[p] # pc'[p] /\ pc'[p] \in {"awaiting", "awaiting_stale"}) =>
                 /\ wire[ref[p]] = <<>>
                 /\ wire'[ref[p]] = <<[op |-> op'[p], fresh |-> TRUE]>>
          /\ (pc[p] = "awaiting" /\ pc'[p] # "awaiting") =>
                 /\ wire[ref[p]] = <<[op |-> op[p], fresh |-> TRUE]>>
                 /\ wire'[ref[p]] = <<>>
    /\ (last'.status \notin {"none", "sent"} /\ ~last'.reply.closed
            /\ last'.status # "RuntimeError") =>
          \E p \in Callers :
              /\ pc[p] = "awaiting" /\ pc'[p] # "awaiting"
              /\ last'.op = op[p]
              /\ wire[ref[p]] = <<[op |-> op[p], fresh |-> TRUE]>>

\* C15 as stated: on every connection requests and replies strictly
\* alternate, at most one request is outstanding, and the reply a caller
\* reads is the reply to the request that caller wrote.
C15_Alternate == [][Alternate]_vars

\* C15 amended: as long as no caller has called yield_conn or an operation
\* on a connection it does not hold, requests and replies alternate as
\* stated.
C15_AlternateNoMisuse == [][misused' = 0 => Alternate]_vars

\* two callers each have a request outstanding, on different connections
C15_Witness ==
    /\ misused = 0
    /\ \E p, q \in Callers :
          /\ p # q /\ pc[p] = "awaiting" /\ pc[q] = "awaiting"
          /\ wire[ref[p]] # <<>> /\ wire[ref[q]] # <<>>

\* C16: a yield_conn(c) step (a put outside initialise) appends c to the idle
\* queue and makes one permit available (as a free permit or handed to the
\* first waiter), and leaves every other connection's queue entries and
\* holders, the connections owned and made, and the waiter list unchanged.
C16_YieldFrame ==
    [][ (Len(queue') > Len(queue) /\ created' = created) =>
          \E c \in Conns :
              /\ queue' = Append(queue, c)
              /\ PermitsOut' = PermitsOut + 1
              /\ \A d \in Conns \ {c} :
                    /\ Occ(queue', d) = Occ(queue, d)
                    /\ HoldersOf(d)' = HoldersOf(d)
              /\ Owned' = Owned
              /\ waiters' = waiters
              /\ UNCHANGED <<initpc, stalled, sockets, eof>> ]_vars

\* a yield_conn has just put a connection back while another is checked out
C16_Witness ==
    /\ sem = 1
    /\ \E p, q \in Callers :
          /\ pc[p] = "idle" /\ queue = <<ref[p]>>
          /\ pc[q] = "holding" /\ ref[q] # ref[p]

\* the sockets connection c holds open: self.socket, the stream's socket
\* and the socket of a stream that was replaced
OpenSockets(c) ==
    (IF c \in sockets.socket THEN 1 ELSE 0) + (IF c \in sockets.stream THEN 1 ELSE 0)
        + (IF c \in sockets.old THEN 1 ELSE 0)

\* C18: a connection holds exactly one open socket from its creation until
\* close() (which is what takes it out of sockets.stream), and none after.
C18_OneSocket ==
    \A c \in Owned : OpenSockets(c) = IF c \in sockets.stream THEN 1 ELSE 0

\* no pool method is mid-execution: initialise is not between two of its
\* connections and no get_conn is suspended in acquire or blocked in get
Quiescent == initpc # "running" /\ waiters = <<>> /\ ~stalled

\* C19: whenever no pool method is mid-execution the available permits
\* equal the idle queue's entries, and get_conn never stalls the event loop
\* in its queue read, also before initialise and after a failed initialise.
C19_PermitsMatchQueue ==
    /\ Quiescent => sem = Len(queue)
    /\ ~stalled

\* on an initialised pool an operation has raised on each of the Size
\* connections and none of them has been yielded since
Exhausted == initpc = "done" /\ leaked = 1..Size

\* C20 amended: as long as no caller has called yield_conn or an operation
\* on a connection it does not hold, once Size operations have each raised
\* on a distinct connection no connection and no permit is available, a
\* get_conn call does not return, and this lasts until yield_conn is called
\* on one of the connections.
C20_ExhaustedUntilYield ==
    [][ (misused' = 0 /\ Exhausted) =>
          /\ queue = <<>> /\ sem = 0 /\ woken = {}
          /\ \A p \in Callers : ~Holding(p) => pc'[p] \in {"idle", "waiting"}
          /\ Exhausted' \/ \E c \in 1..Size : queue' = <<c>> ]_vars

\* every connection is leaked and a caller waits in get_conn
C20_Witness ==
    /\ misused = 0
    /\ Exhausted
    /\ \E p \in Callers : pc[p] = "waiting"

\* C20 as stated: after Size operations have raised on distinct connections
\* the pool is exhausted for good and no connection becomes available again.
C20_PermanentExhaustion ==
    [][ Exhausted => (Exhausted' /\ queue' = <<>>) ]_vars

\* C17: on a successfully initialised pool, if every caller that holds a
\* connection always eventually gives it back, every caller waiting in
\* get_conn eventually receives a connection.
C17_AcquireLive ==
    (\A p \in Callers : []<>(~Holding(p))) =>
        (\A p \in Callers : (pc[p] = "waiting" /\ initpc = "done") ~> Holding(p))

\* a waiter's future has been resolved by a release on an initialised pool
C17_Witness ==
    /\ initpc = "done"
    /\ \E p \in Callers : pc[p] = "waiting" /\ p \in woken /\ queue # <<>>

====
